---- MODULE Spec2Model ----
(***************************************************************************)
(* Model of the job-processing and delivery core of the Acceso API:        *)
(*   - the sliding-window rate limiter   (src/utils/cache.js,              *)
(*                                        src/middleware/rateLimit.js)     *)
(*   - the RPC provider pool and retry   (src/services/solana.js)          *)
(*   - webhook delivery and its queue    (src/services/webhook.js)         *)
(*   - workflow execution and its queue  (src/services/bitquery.js)        *)
(*   - ZK proof generation and its queue (src/services/bitquery.js,        *)
(*                                        src/routes/v1/zk/index.js)       *)
(* Each subsystem has its own specification; the variables of the other    *)
(* subsystems stay at their initial values.                                *)
(***************************************************************************)
EXTENDS Integers, Sequences, FiniteSets, TLC

\* ------------------------------------------------------------------------
\* Bounds
\* ------------------------------------------------------------------------
RLNumProcs == 2      \* concurrent requests on the one rate-limit key
RLMaxRequests == 2   \* maxRequests argument of checkRateLimit
RLWindow == 2        \* windowSeconds argument of checkRateLimit
MaxTime == 3         \* the clock runs 0..MaxTime (seconds)
MaxCalls == 3        \* checkRateLimit calls started in one behaviour

RpcNumCallers == 2   \* concurrent rpcRequest calls
MaxTimers == 1       \* pending reset timers per provider
MaxPoolTime == 3     \* the pool clock runs 0..MaxPoolTime (ticks)
MaxInflight == 2     \* POSTs in flight at once in the timed pool
MaxFailCount == 3    \* failures a provider's counter may reach in the timed pool

RLProcs == 1..RLNumProcs
RpcCallers == 1..RpcNumCallers
MaxJobs == 3         \* jobs ever added to the webhook queue
JobIds == 1..MaxJobs
MaxActions == 3      \* longest action list of a workflow
MaxConds == 2        \* longest condition list of a workflow
MaxProofs == 3       \* proof requests made in one behaviour
ZkMaxQueueSize == 2  \* config.zkProof.maxQueueSize (ZK_MAX_QUEUE_SIZE), scaled down
ProofIds == 1..MaxProofs
MaxAmount == 7        \* balances and thresholds are 0..MaxAmount

VARIABLES
  \* --- rate limiter -----------------------------------------------------
  now,        \* wall clock, seconds
  zset,       \* the redis sorted set of the key: set of [score, member]
  expireAt,   \* time at which redis drops the key, -1 when no TTL is set
  storeUp,    \* whether redis answers (FALSE: every command throws)
  rlPc,       \* per request: position inside rateLimitMiddleware
  rlNow,      \* per request: `now` captured at line 79
  rlId,       \* per request: the unique member suffix (Math.random()) of this call
  rlCount,    \* per request: `count` read at line 87
  rlResult,   \* per request: result of checkRateLimit
  rlResp,     \* per request: what the middleware did ("next" / "429")
  calls,      \* number of checkRateLimit calls started
  admitted,   \* history: calls answered allowed=true: [t, id, failOpen]
  rlSeq,      \* history: the calls so far ran one after the other, the store
              \* always answered, and the key never timed out during a call
  \* --- RPC provider pool ------------------------------------------------
  providerHealth, \* name -> [healthy, failures]
  timers,     \* name -> number of pending 60s reset timers
  down,       \* the endpoints that currently fail every request
  rpcPc,      \* per rpcRequest call: position
  attempt,    \* per call: loop variable `attempt`
  provider,   \* per call: name of the provider selected for this attempt
  lastError,  \* per call: 0, or the number of the attempt whose error it holds
  waits,      \* per call: the backoff delays slept so far (ms)
  posts,      \* per call: number of POSTs issued to a provider
  viaReset,   \* per call: the last selection found no healthy provider
  outcome,    \* per call: "none", "ok" (returned) or "throw"
  solo,       \* per call: started from a fresh pool and nothing else has acted
  okAfterFail, \* history, per provider: it is healthy with a failure on record,
              \* and the last request on it succeeded
  \* --- webhook delivery -------------------------------------------------
  dStatus,    \* delivery record: status ("none" before it is created)
  dAttempt,   \* delivery record: attempt
  dCode,      \* delivery record: response_code (0: NULL)
  lastTriggered, \* webhook record: last_triggered_at has been set
  jobs,       \* the jobs of the queue: id -> [state, attemptsMade, pc, resp]
  whPosts,    \* number of POSTs made to the receiver for the delivery
  responses,  \* the receiver's first answers, in order
  rfPc,       \* position of the retryFailed call
  whDbFailed, \* history: the store has rejected an operation of a delivery attempt
  \* --- workflow execution -----------------------------------------------
  wfActions,  \* the workflow's action list (types), fixed
  wfCond,     \* the workflow's conditions: a list of [field, operator, value]
  wfData,     \* the trigger data of the execution: field -> number
  exStatus,   \* execution record: status ("none" before it is created)
  exResult,   \* execution record: result
  exError,    \* execution record: error
  exLogs,     \* execution record: logs
  execCount,  \* workflow record: execution_count
  lastExecStatus, \* workflow record: last_execution_status
  wfJob,      \* the queue job of the execution: [state, attemptsMade]
  wfPc,       \* position of the run of executeWorkflow
  wfIdx,      \* index of the action in flight
  results,    \* the run's `results`
  logs,       \* the run's `logs`
  wfErr,      \* the error caught by the run
  started,    \* the actions started by the run, in order
  executed,   \* per action: how often it was started, over all runs
  wfDbFailed, \* history: the store has rejected an operation of the execution
  \* --- ZK proof generation ----------------------------------------------
  zkReq,      \* per request: position inside POST /proofs/generate
  zkHasId,    \* per request: whether the queued job data carries the proofId
  zkValid,    \* per request: whether the statement to prove is true
  zkRec,      \* the zk_proofs rows: id -> status ("absent" before the INSERT)
  zkJob,      \* the queue jobs: request -> [state, attemptsMade, pc]
  zkProver,   \* per request: number of snarkjs.groth16.fullProve invocations
  zkDbFailed, \* history: the store has rejected an update of a proof record
  \* --- direct balance proof ---------------------------------------------
  balPc,      \* position of the generateBalanceProof call
  balInputs,  \* its arguments: [balance, threshold]
  balProver,  \* number of snarkjs.groth16.fullProve invocations of the call
  \* --- condition evaluation alone ----------------------------------------
  condPc,     \* position of the executeWorkflow run that checks conditions
  condList,   \* workflow.conditions of the run
  condData,   \* its trigger data
  condOut,    \* what the run did after the check ("skipped" / "actions")
  \* --- provider pool on a clock -------------------------------------------
  poolNow,    \* wall clock, in ticks of half a cooldown
  timerDue,   \* the pending setTimeout callbacks: set of [name, at]
  inflight,   \* per provider: POSTs issued to it and not yet answered
  markedAt    \* history, per provider: when it last went from healthy to
              \* unhealthy, -1 when never or when fail-open has reset it since

rlVars == <<now, zset, expireAt, storeUp, rlPc, rlNow, rlId, rlCount, rlResult,
            rlResp, calls, admitted, rlSeq>>
rpcVars == <<providerHealth, timers, down, rpcPc, attempt, provider, lastError, waits,
             posts, viaReset, outcome, solo, okAfterFail>>
whVars == <<dStatus, dAttempt, dCode, lastTriggered, jobs, whPosts, responses, rfPc,
            whDbFailed>>
wfVars == <<wfActions, wfCond, wfData, exStatus, exResult, exError, exLogs, execCount,
            lastExecStatus, wfJob, wfPc, wfIdx, results, logs, wfErr, started, executed,
            wfDbFailed>>
zkVars == <<zkReq, zkHasId, zkValid, zkRec, zkJob, zkProver, zkDbFailed>>
balVars == <<balPc, balInputs, balProver>>
condVars == <<condPc, condList, condData, condOut>>
poolVars == <<poolNow, timerDue, inflight, markedAt>>
vars == <<rlVars, rpcVars, whVars, wfVars, zkVars, balVars, condVars, poolVars>>

RLFrame == UNCHANGED <<rpcVars, whVars, wfVars, zkVars, balVars, condVars, poolVars>>
RpcFrame == UNCHANGED <<rlVars, whVars, wfVars, zkVars, balVars, condVars, poolVars>>
WhFrame == UNCHANGED <<rlVars, rpcVars, wfVars, zkVars, balVars, condVars, poolVars>>
WfFrame == UNCHANGED <<rlVars, rpcVars, whVars, zkVars, balVars, condVars, poolVars>>
ZkFrame == UNCHANGED <<rlVars, rpcVars, whVars, wfVars, balVars, condVars, poolVars>>
BalFrame == UNCHANGED <<rlVars, rpcVars, whVars, wfVars, zkVars, condVars, poolVars>>
CondFrame == UNCHANGED <<rlVars, rpcVars, whVars, wfVars, zkVars, balVars, poolVars>>
PoolFrame ==
  UNCHANGED <<rlVars, whVars, wfVars, zkVars, balVars, condVars, timers, down, rpcPc, attempt,
              provider, lastError, waits, posts, viaReset, outcome, solo, okAfterFail>>

\* ------------------------------------------------------------------------
\* Sliding-window rate limiter
\* ------------------------------------------------------------------------
NoResult == [allowed |-> FALSE, remaining |-> -1]

\* windowStart = now - windowSeconds * 1000   (time unit here: one second)
windowStart(p) == rlNow[p] - RLWindow

\* (variant: the upper bound of the range is excluded)
zremrangebyscore_Exclusive(s, lo, hi) == {e \in s : ~(lo <= e.score /\ e.score < hi)}

\* redis.zremrangebyscore(key, 0, windowStart): drops scores in [0, windowStart]
zremrangebyscore(s, lo, hi) == {e \in s : ~(lo <= e.score /\ e.score <= hi)}

\* redis.zcard(key)
zcard(s) == Cardinality(s)

\* The clock advances; redis drops the key when its TTL has run out.
Tick ==
  /\ now < MaxTime
  /\ now' = now + 1
  /\ IF expireAt # -1 /\ now + 1 >= expireAt
       THEN zset' = {} /\ expireAt' = -1
       ELSE UNCHANGED <<zset, expireAt>>
  /\ rlSeq' = (rlSeq /\ ~(zset' # zset /\ \E p \in RLProcs : rlPc[p] # "idle"))
  /\ UNCHANGED <<storeUp, rlPc, rlNow, rlId, rlCount, rlResult, rlResp, calls, admitted>>
  /\ RLFrame

\* The store becomes unreachable or reachable again.
StoreFlip ==
  /\ storeUp' = ~storeUp
  /\ rlSeq' = FALSE
  /\ UNCHANGED <<now, zset, expireAt, rlPc, rlNow, rlId, rlCount, rlResult, rlResp,
                 calls, admitted>>
  /\ RLFrame

\* rateLimitMiddleware lines 25-43 and checkRateLimit lines 78-80:
\* a request arrives, the middleware calls checkRateLimit, which reads the clock.
RLStart(p) ==
  /\ rlPc[p] = "idle"
  /\ calls < MaxCalls
  /\ calls' = calls + 1
  /\ rlNow' = [rlNow EXCEPT ![p] = now]
  /\ rlId' = [rlId EXCEPT ![p] = calls + 1]
  /\ rlCount' = [rlCount EXCEPT ![p] = 0]
  /\ rlResult' = [rlResult EXCEPT ![p] = NoResult]
  /\ rlResp' = [rlResp EXCEPT ![p] = "none"]
  /\ rlPc' = [rlPc EXCEPT ![p] = "zrem"]
  /\ rlSeq' = (rlSeq /\ \A q \in RLProcs : rlPc[q] = "idle")
  /\ UNCHANGED <<now, zset, expireAt, storeUp, admitted>>
  /\ RLFrame

\* (variant: a store error denies the request)
RLCatch_FailClosed(p) ==
  /\ rlPc[p] \in {"zrem", "zcard", "zadd", "expire"}
  /\ ~storeUp
  /\ rlResult' = [rlResult EXCEPT ![p] = [allowed |-> FALSE, remaining |-> 0]]
  /\ rlPc' = [rlPc EXCEPT ![p] = "checked"]
  /\ UNCHANGED <<now, zset, expireAt, storeUp, rlNow, rlId, rlCount, rlResp, calls, admitted,
                 rlSeq>>
  /\ RLFrame

\* catch block, lines 102-106: any store error answers allowed=true
RLCatch(p) ==
  /\ rlPc[p] \in {"zrem", "zcard", "zadd", "expire"}
  /\ ~storeUp
  /\ rlResult' = [rlResult EXCEPT ![p] = [allowed |-> TRUE, remaining |-> RLMaxRequests]]
  /\ admitted' = admitted \cup {[t |-> rlNow[p], id |-> rlId[p], failOpen |-> TRUE]}
  /\ rlPc' = [rlPc EXCEPT ![p] = "checked"]
  /\ UNCHANGED <<now, zset, expireAt, storeUp, rlNow, rlId, rlCount, rlResp, calls, rlSeq>>
  /\ RLFrame

\* line 84: await redis.zremrangebyscore(key, 0, windowStart)
RLPrune(p) ==
  /\ rlPc[p] = "zrem"
  /\ storeUp
  /\ zset' = zremrangebyscore(zset, 0, windowStart(p))
  /\ expireAt' = IF zset' = {} THEN -1 ELSE expireAt   \* an emptied key is gone
  /\ rlPc' = [rlPc EXCEPT ![p] = "zcard"]
  /\ UNCHANGED <<now, storeUp, rlNow, rlId, rlCount, rlResult, rlResp, calls, admitted, rlSeq>>
  /\ RLFrame

\* lines 87-91: count = await redis.zcard(key); deny when count >= maxRequests
RLCountStep(p) ==
  /\ rlPc[p] = "zcard"
  /\ storeUp
  /\ rlCount' = [rlCount EXCEPT ![p] = zcard(zset)]
  /\ IF zcard(zset) >= RLMaxRequests
       THEN /\ rlResult' = [rlResult EXCEPT ![p] = [allowed |-> FALSE, remaining |-> 0]]
            /\ rlPc' = [rlPc EXCEPT ![p] = "checked"]
       ELSE /\ rlPc' = [rlPc EXCEPT ![p] = "zadd"]
            /\ UNCHANGED rlResult
  /\ UNCHANGED <<now, zset, expireAt, storeUp, rlNow, rlId, rlResp, calls, admitted, rlSeq>>
  /\ RLFrame

\* line 94: await redis.zadd(key, now, `${now}-${Math.random()}`)
RLAdd(p) ==
  /\ rlPc[p] = "zadd"
  /\ storeUp
  /\ zset' = zset \cup {[score |-> rlNow[p], member |-> rlId[p]]}
  /\ rlPc' = [rlPc EXCEPT ![p] = "expire"]
  /\ UNCHANGED <<now, expireAt, storeUp, rlNow, rlId, rlCount, rlResult, rlResp, calls, admitted,
                 rlSeq>>
  /\ RLFrame

\* lines 95-101: await redis.expire(key, windowSeconds); return allowed
RLExpire(p) ==
  /\ rlPc[p] = "expire"
  /\ storeUp
  /\ expireAt' = IF zset = {} THEN -1 ELSE now + RLWindow
  /\ rlResult' = [rlResult EXCEPT ![p] =
                    [allowed |-> TRUE, remaining |-> RLMaxRequests - rlCount[p] - 1]]
  /\ admitted' = admitted \cup {[t |-> rlNow[p], id |-> rlId[p], failOpen |-> FALSE]}
  /\ rlPc' = [rlPc EXCEPT ![p] = "checked"]
  /\ UNCHANGED <<now, zset, storeUp, rlNow, rlId, rlCount, rlResp, calls, rlSeq>>
  /\ RLFrame

\* rateLimitMiddleware lines 45-71: 429 when not allowed, next() otherwise
RLRespond(p) ==
  /\ rlPc[p] = "checked"
  /\ rlResp' = [rlResp EXCEPT ![p] = IF rlResult[p].allowed THEN "next" ELSE "429"]
  /\ rlPc' = [rlPc EXCEPT ![p] = "idle"]
  /\ rlNow' = [rlNow EXCEPT ![p] = 0]        \* the locals of the call are gone
  /\ rlId' = [rlId EXCEPT ![p] = 0]
  /\ rlCount' = [rlCount EXCEPT ![p] = 0]
  /\ rlResult' = [rlResult EXCEPT ![p] = NoResult]
  /\ UNCHANGED <<now, zset, expireAt, storeUp, calls, admitted, rlSeq>>
  /\ RLFrame

RLNext ==
  \/ Tick
  \/ StoreFlip
  \/ \E p \in RLProcs : RLStart(p)
  \/ \E p \in RLProcs : RLCatch(p)
  \/ \E p \in RLProcs : RLPrune(p)
  \/ \E p \in RLProcs : RLCountStep(p)
  \/ \E p \in RLProcs : RLAdd(p)
  \/ \E p \in RLProcs : RLExpire(p)
  \/ \E p \in RLProcs : RLRespond(p)

\* The rate limiter with a single caller: its calls follow one another.
RLSeqNext ==
  \/ Tick
  \/ StoreFlip
  \/ RLStart(1)
  \/ RLCatch(1)
  \/ RLPrune(1)
  \/ RLCountStep(1)
  \/ RLAdd(1)
  \/ RLExpire(1)
  \/ RLRespond(1)

\* ------------------------------------------------------------------------
\* RPC provider pool and retrying requester (src/services/solana.js)
\* ------------------------------------------------------------------------
Names == <<"primary", "fallback", "triton">>
NameSet == {Names[i] : i \in 1..Len(Names)}
IndexOf(n) == CHOOSE i \in 1..Len(Names) : Names[i] = n

\* (variant: one attempt too many)
maxRetries_Four == 2 + 2
maxRetries == 3
FailureThreshold == 2
BackoffUnit == 200

\* providerHealth, lines 32-36
HealthInit == [n \in NameSet |-> [healthy |-> TRUE, failures |-> 0]]

\* (variant: the triton provider is preferred to the fallback)
getHealthyProviderName_TritonFirst(h) ==
  IF h["primary"].healthy THEN "primary"
  ELSE IF h["triton"].healthy THEN "triton"
  ELSE IF h["fallback"].healthy THEN "fallback"
  ELSE "primary"

\* getHealthyProvider, lines 41-55: the name it returns ...
getHealthyProviderName(h) ==
  IF h["primary"].healthy THEN "primary"
  ELSE IF h["fallback"].healthy THEN "fallback"
  ELSE IF h["triton"].healthy THEN "triton"
  ELSE "primary"

\* (variant: the fail-open reset forgets to clear the failure count)
getHealthyProviderHealth_KeepCount(h) ==
  IF h["primary"].healthy THEN h
  ELSE IF h["fallback"].healthy THEN h
  ELSE IF h["triton"].healthy THEN h
  ELSE [h EXCEPT !["primary"] = [healthy |-> TRUE, failures |-> h["primary"].failures]]

\* ... and the health table it leaves behind (lines 52-53 reset the primary)
getHealthyProviderHealth(h) ==
  IF h["primary"].healthy THEN h
  ELSE IF h["fallback"].healthy THEN h
  ELSE IF h["triton"].healthy THEN h
  ELSE [h EXCEPT !["primary"] = [healthy |-> TRUE, failures |-> 0]]

\* (variant: a provider is marked unhealthy one failure later)
markProviderFailed_Late(h, n) ==
  IF h[n].failures + 1 >= FailureThreshold + 1
    THEN [health |-> [h EXCEPT ![n] = [healthy |-> FALSE, failures |-> h[n].failures + 1]],
          armed |-> TRUE]
    ELSE [health |-> [h EXCEPT ![n] = [healthy |-> h[n].healthy, failures |-> h[n].failures + 1]],
          armed |-> FALSE]

\* markProviderFailed, lines 60-75: the health table after the call, and
\* whether the call armed a 60s reset timer (lines 68-72)
markProviderFailed(h, n) ==
  IF h[n].failures + 1 >= FailureThreshold
    THEN [health |-> [h EXCEPT ![n] = [healthy |-> FALSE, failures |-> h[n].failures + 1]],
          armed |-> TRUE]
    ELSE [health |-> [h EXCEPT ![n] = [healthy |-> h[n].healthy, failures |-> h[n].failures + 1]],
          armed |-> FALSE]

NoneHealthy(h) == \A n \in NameSet : ~h[n].healthy

AllFresh == \A n \in NameSet : providerHealth[n].healthy /\ providerHealth[n].failures = 0

\* Another party acts while callers are in flight: their calls are no longer alone.
Disturb(others) == [c \in RpcCallers |-> IF c \in others THEN FALSE ELSE solo[c]]

\* An upstream endpoint goes down (fails every request) or comes back.
Outage(n) ==
  /\ down' = IF n \in down THEN down \ {n} ELSE down \cup {n}
  /\ solo' = Disturb(RpcCallers)
  /\ UNCHANGED <<providerHealth, timers, rpcPc, attempt, provider, lastError, waits,
                 posts, viaReset, outcome>>
  /\ UNCHANGED okAfterFail
  /\ RpcFrame

\* The setTimeout callback of markProviderFailed, lines 68-72.
TimerFire(n) ==
  /\ timers[n] > 0
  /\ timers' = [timers EXCEPT ![n] = @ - 1]
  /\ providerHealth' = [providerHealth EXCEPT ![n] = [healthy |-> TRUE, failures |-> 0]]
  /\ solo' = Disturb(RpcCallers)
  /\ UNCHANGED <<down, rpcPc, attempt, provider, lastError, waits, posts, viaReset,
                 outcome>>
  /\ okAfterFail' = [okAfterFail EXCEPT ![n] = FALSE]
  /\ RpcFrame

\* rpcRequest lines 80-100: the call starts, the loop is entered, a provider is
\* selected and the POST is issued (everything up to the first await).
RpcStart(c) ==
  /\ rpcPc[c] = "idle"
  /\ attempt' = [attempt EXCEPT ![c] = 0]
  /\ lastError' = [lastError EXCEPT ![c] = 0]
  /\ waits' = [waits EXCEPT ![c] = <<>>]
  /\ posts' = [posts EXCEPT ![c] = 1]
  /\ viaReset' = [viaReset EXCEPT ![c] = NoneHealthy(providerHealth)]
  /\ outcome' = [outcome EXCEPT ![c] = "none"]
  /\ provider' = [provider EXCEPT ![c] = getHealthyProviderName(providerHealth)]
  /\ providerHealth' = getHealthyProviderHealth(providerHealth)
  /\ rpcPc' = [rpcPc EXCEPT ![c] = "request"]
  /\ solo' = [d \in RpcCallers |->
                IF d = c THEN AllFresh /\ \A e \in RpcCallers \ {c} : rpcPc[e] = "idle"
                ELSE FALSE]
  /\ UNCHANGED <<timers, down>>
  /\ UNCHANGED okAfterFail
  /\ RpcFrame

\* lines 102-106: the POST answered without an error: return the result.
RpcSuccess(c) ==
  /\ rpcPc[c] = "request"
  /\ provider[c] \notin down
  /\ outcome' = [outcome EXCEPT ![c] = "ok"]
  /\ rpcPc' = [rpcPc EXCEPT ![c] = "done"]
  /\ UNCHANGED <<providerHealth, timers, down, attempt, provider, lastError, waits,
                 posts, viaReset, solo>>
  /\ okAfterFail' = [okAfterFail EXCEPT ![provider[c]] =
                       providerHealth[provider[c]].healthy
                       /\ providerHealth[provider[c]].failures >= 1]
  /\ RpcFrame

\* lines 107-123: the POST failed (network error, timeout or RPC error).
\* The provider is marked; then either the backoff sleep starts, or, after the
\* last attempt, the loop ends and lastError is thrown.
RpcFailure(c) ==
  /\ rpcPc[c] = "request"
  /\ provider[c] \in down
  /\ markProviderFailed(providerHealth, provider[c]).armed => timers[provider[c]] < MaxTimers
  /\ lastError' = [lastError EXCEPT ![c] = attempt[c] + 1]
  /\ providerHealth' = markProviderFailed(providerHealth, provider[c]).health
  /\ timers' = IF markProviderFailed(providerHealth, provider[c]).armed
                 THEN [timers EXCEPT ![provider[c]] = @ + 1] ELSE timers
  /\ IF attempt[c] < maxRetries - 1
       THEN /\ waits' = [waits EXCEPT ![c] = Append(@, BackoffUnit * (attempt[c] + 1))]
            /\ rpcPc' = [rpcPc EXCEPT ![c] = "backoff"]
            /\ UNCHANGED <<attempt, outcome>>
       ELSE /\ attempt' = [attempt EXCEPT ![c] = @ + 1]
            /\ outcome' = [outcome EXCEPT ![c] = "throw"]
            /\ rpcPc' = [rpcPc EXCEPT ![c] = "done"]
            /\ UNCHANGED waits
  /\ UNCHANGED <<down, provider, posts, viaReset, solo>>
  /\ okAfterFail' = [okAfterFail EXCEPT ![provider[c]] = FALSE]
  /\ RpcFrame

\* The backoff sleep is over: attempt++, loop head, next provider, next POST.
RpcWake(c) ==
  /\ rpcPc[c] = "backoff"
  /\ attempt[c] + 1 < maxRetries
  /\ attempt' = [attempt EXCEPT ![c] = @ + 1]
  /\ provider' = [provider EXCEPT ![c] = getHealthyProviderName(providerHealth)]
  /\ providerHealth' = getHealthyProviderHealth(providerHealth)
  /\ posts' = [posts EXCEPT ![c] = @ + 1]
  /\ viaReset' = [viaReset EXCEPT ![c] = NoneHealthy(providerHealth)]
  /\ rpcPc' = [rpcPc EXCEPT ![c] = "request"]
  /\ UNCHANGED <<timers, down, lastError, waits, outcome, solo>>
  /\ UNCHANGED okAfterFail
  /\ RpcFrame

\* The caller of rpcRequest takes the result or the exception.
RpcReturn(c) ==
  /\ rpcPc[c] = "done"
  /\ rpcPc' = [rpcPc EXCEPT ![c] = "idle"]
  /\ attempt' = [attempt EXCEPT ![c] = 0]      \* the locals of the call are gone
  /\ provider' = [provider EXCEPT ![c] = "primary"]
  /\ lastError' = [lastError EXCEPT ![c] = 0]
  /\ waits' = [waits EXCEPT ![c] = <<>>]
  /\ posts' = [posts EXCEPT ![c] = 0]
  /\ viaReset' = [viaReset EXCEPT ![c] = FALSE]
  /\ outcome' = [outcome EXCEPT ![c] = "none"]
  /\ solo' = [solo EXCEPT ![c] = FALSE]
  /\ UNCHANGED <<providerHealth, timers, down>>
  /\ UNCHANGED okAfterFail
  /\ RpcFrame

RpcNext ==
  \/ \E n \in NameSet : Outage(n)
  \/ \E n \in NameSet : TimerFire(n)
  \/ \E c \in RpcCallers : RpcStart(c)
  \/ \E c \in RpcCallers : RpcSuccess(c)
  \/ \E c \in RpcCallers : RpcFailure(c)
  \/ \E c \in RpcCallers : RpcWake(c)
  \/ \E c \in RpcCallers : RpcReturn(c)

\* ------------------------------------------------------------------------
\* Webhook delivery (src/services/webhook.js, WebhookDelivery model)
\* One delivery of one active webhook; the Bull queue 'webhook-delivery'.
\* ------------------------------------------------------------------------
webhookMaxRetries == 3          \* config.webhook.maxRetries, the queue's `attempts`
StatusCodes == {200, 404, 500}  \* 2xx, 4xx, and 5xx / timeout / network error
HistLen == 3                    \* responses remembered in `responses`

\* config/constants WEBHOOK_RETRY_DELAYS: the fixed delay table of the
\* webhook retries, in minutes
WEBHOOK_RETRY_DELAYS == <<1, 5, 30>>

\* webhookQueue defaultJobOptions.backoff, lines 26-29: type 'fixed' with
\* delay WEBHOOK_RETRY_DELAYS[0], the delay of every retry made by the queue
backoffDelay == WEBHOOK_RETRY_DELAYS[1]

\* retryFailed lines 239-240: the delay of the job added for `attempt`
\*   delayIndex = Math.min(attempt - 1, WEBHOOK_RETRY_DELAYS.length - 1)
delayIndex(att) ==
  IF att - 1 < Len(WEBHOOK_RETRY_DELAYS) - 1
    THEN att - 1 ELSE Len(WEBHOOK_RETRY_DELAYS) - 1
retryDelay(att) == WEBHOOK_RETRY_DELAYS[delayIndex(att) + 1]

\* A job of the queue; delay is the delay a delayed job is waiting out
NoJob == [state |-> "absent", attemptsMade |-> 0, pc |-> "-", resp |-> 0, delay |-> 0]

\* The lowest job id not used yet
FreeJob == CHOOSE j \in JobIds : jobs[j].state = "absent" /\ \A k \in JobIds : k < j => jobs[k].state # "absent"

\* WebhookDelivery.create: status 'pending', attempt 1
createDelivery == [status |-> "pending", attempt |-> 1]

\* trigger, lines 52-89: create the delivery record and queue its job.
Trigger ==
  /\ dStatus = "none"
  /\ dStatus' = createDelivery.status
  /\ dAttempt' = createDelivery.attempt
  /\ jobs' = [jobs EXCEPT ![1] = [state |-> "waiting", attemptsMade |-> 0, pc |-> "-", resp |-> 0,
                                  delay |-> 0]]
  /\ UNCHANGED <<dCode, lastTriggered, whPosts, responses, rfPc>>
  /\ UNCHANGED whDbFailed
  /\ WhFrame

\* webhookQueue.process, lines 33-37, and deliverWebhook lines 94-120:
\* a consumer claims a waiting job and POSTs the signed payload.
JobClaim(j) ==
  /\ jobs[j].state = "waiting"
  /\ jobs' = [jobs EXCEPT ![j].state = "active", ![j].pc = "post"]
  /\ whPosts' = whPosts + 1
  /\ UNCHANGED <<dStatus, dAttempt, dCode, lastTriggered, responses, rfPc>>
  /\ UNCHANGED whDbFailed
  /\ WhFrame

\* The receiver answers. axios resolves for status < 500 (validateStatus,
\* line 119) and rejects otherwise, which enters the catch block.
JobResponse(j, code) ==
  /\ jobs[j].state = "active" /\ jobs[j].pc = "post"
  /\ responses' = IF Len(responses) < HistLen THEN Append(responses, code) ELSE responses
  /\ jobs' = [jobs EXCEPT ![j].resp = code,
                          ![j].pc = IF code < 500 THEN "update" ELSE "catch"]
  /\ UNCHANGED <<dStatus, dAttempt, dCode, lastTriggered, whPosts, rfPc>>
  /\ UNCHANGED whDbFailed
  /\ WhFrame

\* (variant: every answer axios resolves with counts as a success)
isSuccess_AnyResolved(code) == code >= 200 /\ code < 500

\* line 125: response.status >= 200 && response.status < 300
isSuccess(code) == code >= 200 /\ code < 300

\* lines 122-149: record the attempt; a non-2xx answer throws inside the try.
\* dbOk = FALSE: the store rejects the update, which also enters the catch.
JobUpdate(j, dbOk) ==
  /\ jobs[j].state = "active" /\ jobs[j].pc = "update"
  /\ IF dbOk
       THEN /\ dStatus' = IF isSuccess(jobs[j].resp) THEN "success" ELSE "failed"
            /\ dCode' = jobs[j].resp
            /\ jobs' = [jobs EXCEPT ![j].pc = IF isSuccess(jobs[j].resp) THEN "lastTrig" ELSE "catch"]
       ELSE /\ jobs' = [jobs EXCEPT ![j].pc = "catch"]
            /\ UNCHANGED <<dStatus, dCode>>
  /\ UNCHANGED <<dAttempt, lastTriggered, whPosts, responses, rfPc>>
  /\ whDbFailed' = (whDbFailed \/ ~dbOk)
  /\ WhFrame

\* What Bull does with a job whose processor threw: one more attempt is used
\* up; the job is retried after the backoff delay while attempts remain.
jobFailed(job) ==
  [job EXCEPT !.attemptsMade = @ + 1,
              !.state = IF job.attemptsMade + 1 < webhookMaxRetries THEN "delayed" ELSE "failed",
              !.delay = IF job.attemptsMade + 1 < webhookMaxRetries THEN backoffDelay ELSE 0,
              !.pc = "-", !.resp = 0]

\* lines 136-151: Webhook.updateLastTriggered, then return: the job completes.
JobLastTriggered(j, dbOk) ==
  /\ jobs[j].state = "active" /\ jobs[j].pc = "lastTrig"
  /\ IF dbOk
       THEN /\ lastTriggered' = TRUE
            /\ jobs' = [jobs EXCEPT ![j].state = "completed", ![j].pc = "-", ![j].resp = 0]
       ELSE /\ jobs' = [jobs EXCEPT ![j].pc = "catch"]
            /\ UNCHANGED lastTriggered
  /\ UNCHANGED <<dStatus, dAttempt, dCode, whPosts, responses, rfPc>>
  /\ whDbFailed' = (whDbFailed \/ ~dbOk)
  /\ WhFrame

\* catch block, lines 153-164, and the processor's rethrow, lines 38-46:
\* the record is set to failed (response_code is not passed: NULL), the error
\* goes to the queue.
JobCatch(j, dbOk) ==
  /\ jobs[j].state = "active" /\ jobs[j].pc = "catch"
  /\ IF dbOk
       THEN dStatus' = "failed" /\ dCode' = 0
       ELSE UNCHANGED <<dStatus, dCode>>
  /\ jobs' = [jobs EXCEPT ![j] = jobFailed(jobs[j])]
  /\ UNCHANGED <<dAttempt, lastTriggered, whPosts, responses, rfPc>>
  /\ whDbFailed' = (whDbFailed \/ ~dbOk)
  /\ WhFrame

\* The backoff (or the delay given to add) of a delayed job has run out.
JobDelayElapsed(j) ==
  /\ jobs[j].state = "delayed"
  /\ jobs' = [jobs EXCEPT ![j].state = "waiting", ![j].delay = 0]
  /\ UNCHANGED <<dStatus, dAttempt, dCode, lastTriggered, whPosts, responses, rfPc>>
  /\ UNCHANGED whDbFailed
  /\ WhFrame

\* WebhookDelivery.getPendingRetries: the delivery is selected when it is
\* failed and its attempt is below maxAttempts
getPendingRetries(status, att, maxAttempts) == status = "failed" /\ att < maxAttempts

\* retryFailed line 233: the query returned the delivery.
RfQuery ==
  /\ rfPc = "idle"
  /\ getPendingRetries(dStatus, dAttempt, webhookMaxRetries)
  /\ rfPc' = "incr"
  /\ UNCHANGED <<dStatus, dAttempt, dCode, lastTriggered, jobs, whPosts, responses>>
  /\ UNCHANGED whDbFailed
  /\ WhFrame

\* WebhookDelivery.incrementAttempt: attempt = attempt + 1
incrementAttempt(att) == att + 1

\* retryFailed line 236
RfIncrement ==
  /\ rfPc = "incr"
  /\ dAttempt' = incrementAttempt(dAttempt)
  /\ rfPc' = "add"
  /\ UNCHANGED <<dStatus, dCode, lastTriggered, jobs, whPosts, responses>>
  /\ UNCHANGED whDbFailed
  /\ WhFrame

\* retryFailed lines 242-259: a new job for the delivery is added, delayed.
RfAdd ==
  /\ rfPc = "add"
  /\ \E j \in JobIds : jobs[j].state = "absent"
  /\ jobs' = [jobs EXCEPT ![FreeJob] = [state |-> "delayed", attemptsMade |-> 0, pc |-> "-",
                                        resp |-> 0, delay |-> retryDelay(dAttempt)]]
  /\ rfPc' = "idle"
  /\ UNCHANGED <<dStatus, dAttempt, dCode, lastTriggered, whPosts, responses>>
  /\ UNCHANGED whDbFailed
  /\ WhFrame

WhNext ==
  \/ Trigger
  \/ \E j \in JobIds : JobClaim(j)
  \/ \E j \in JobIds, code \in StatusCodes : JobResponse(j, code)
  \/ \E j \in JobIds, dbOk \in BOOLEAN : JobUpdate(j, dbOk)
  \/ \E j \in JobIds, dbOk \in BOOLEAN : JobLastTriggered(j, dbOk)
  \/ \E j \in JobIds, dbOk \in BOOLEAN : JobCatch(j, dbOk)
  \/ \E j \in JobIds : JobDelayElapsed(j)
  \/ RfQuery
  \/ RfIncrement
  \/ RfAdd

\* ------------------------------------------------------------------------
\* Workflow execution (src/services/bitquery.js lines 1683-1963, the
\* WorkflowExecution and Workflow models).  One execution of one workflow.
\* ------------------------------------------------------------------------
workflowMaxRetries == 3   \* config.workflow.maxRetries, the queue's `attempts`

\* Action types by behaviour: "webhook" (like http_request) performs a network
\* call that may throw; "email" (like solana_transfer) always returns; any other
\* type makes executeAction throw.
ActionTypes == {"webhook", "email", "bogus"}
ActionLists == UNION {[1..n -> ActionTypes] : n \in 0..MaxActions}

NoRecordResult == [kind |-> "null", actions |-> <<>>]
NoError == <<"null", 0>>

\* executeAction, lines 1869-1886: whether the action of this type can return
\* and whether it can throw
canReturn(type) == type \in {"webhook", "email"}
canThrow(type) == type \in {"webhook", "bogus"}

\* The message of the error thrown by action i
ActionError(i) == <<"action failed", i>>
DbError == <<"store error", 0>>

\* Values read from the trigger data: a number, or `undefined`.
Undefined == [def |-> FALSE, n |-> 0]
NoData == [amount |-> 0]

\* `value <= targetValue` in JavaScript: false when value is undefined
jsLessOrEqual(v, t) == v.def /\ v.n <= t
\* `value >= targetValue`
jsGreaterOrEqual(v, t) == v.def /\ v.n >= t

\* String(n) as a sequence of decimal digits
RECURSIVE Digits(_)
Digits(n) == IF n < 10 THEN <<n>> ELSE Append(Digits(n \div 10), n % 10)

\* String(value).includes(targetValue); "undefined" holds no digit
jsIncludes(v, t) ==
  /\ v.def
  /\ \E i \in 0..(Len(Digits(v.n)) - Len(Digits(t))) :
       SubSeq(Digits(v.n), i + 1, i + Len(Digits(t))) = Digits(t)

\* getNestedValue, lines 1940-1942, for a one-segment path
getNestedValue(obj, path) ==
  IF path \in DOMAIN obj THEN [def |-> TRUE, n |-> obj[path]] ELSE Undefined

\* evaluateConditions lines 1832-1860: one condition; FALSE is `return false`.
\* An unknown operator only logs a warning.
conditionPasses(c, data) ==
  LET value == getNestedValue(data, c.field)
      targetValue == c.value
  IN CASE c.operator = "equals" -> (value.def /\ value.n = targetValue)
       [] c.operator = "not_equals" -> ~(value.def /\ value.n = targetValue)
       [] c.operator = "greater_than" -> ~jsLessOrEqual(value, targetValue)
       [] c.operator = "less_than" -> ~jsGreaterOrEqual(value, targetValue)
       [] c.operator = "contains" -> jsIncludes(value, targetValue)
       [] c.operator = "exists" -> value.def
       [] OTHER -> TRUE

\* (variant: one passing condition is enough)
evaluateConditions_Any(conditions, data) ==
  \E i \in 1..Len(conditions) : conditionPasses(conditions[i], data)

\* evaluateConditions, lines 1830-1864: every condition must pass
evaluateConditions(conditions, data) ==
  \A i \in 1..Len(conditions) : conditionPasses(conditions[i], data)

\* The conditions and trigger data the executions are started with.
WfOperators == {"greater_than", "less_than"}
WfConds == {[field |-> "amount", operator |-> op, value |-> 100] : op \in WfOperators}
CondLists == UNION {[1..n -> WfConds] : n \in 0..MaxConds}
TriggerData == {[amount |-> 50], [amount |-> 150]}

\* execute, lines 1734-1750: for the given workflow (its action list and its
\* conditions) and trigger data create the execution record (status 'running')
\* and queue the job.
WfExecute(acts, conds, data) ==
  /\ exStatus = "none"
  /\ wfActions' = acts
  /\ wfCond' = conds
  /\ wfData' = data
  /\ exStatus' = "running"
  /\ wfJob' = [state |-> "waiting", attemptsMade |-> 0]
  /\ UNCHANGED <<exResult, exError, exLogs, execCount, lastExecStatus,
                 wfPc, wfIdx, results, logs, wfErr, started, executed>>
  /\ UNCHANGED wfDbFailed
  /\ WfFrame

\* The position after the conditions passed or after action idx returned:
\* the next action is started, or, after the last one, the success update.
startNext(idx) ==
  IF idx < Len(wfActions) THEN "action" ELSE "updSuccess"

\* (variant: the loop goes on after an action threw)
afterAction_KeepGoing(ok, idx) == startNext(idx)

\* lines 1789-1797: where the run goes when action idx has ended
afterAction(ok, idx) ==
  IF ok THEN startNext(idx) ELSE "catchUpd"

\* workflowQueue.process, lines 1716-1720, executeWorkflow lines 1755-1790:
\* a consumer claims the job; the run logs its start, checks the conditions and
\* either skips, or starts the first action, or (no actions) goes to the update.
WfClaim ==
  /\ wfJob.state = "waiting"
  /\ wfJob' = [wfJob EXCEPT !.state = "active"]
  /\ results' = <<>>
  /\ wfErr' = NoError
  /\ IF Len(wfCond) > 0 /\ ~evaluateConditions(wfCond, wfData)
       THEN /\ logs' = << <<"Workflow started", 0>>, <<"Conditions not met, skipping", 0>> >>
            /\ wfPc' = "updSkipped"
            /\ wfIdx' = 0
            /\ started' = <<>>
            /\ UNCHANGED executed
       ELSE /\ wfPc' = startNext(0)
            /\ wfIdx' = IF startNext(0) = "action" THEN 1 ELSE 0
            /\ started' = IF startNext(0) = "action" THEN <<1>> ELSE <<>>
            /\ executed' = IF startNext(0) = "action"
                             THEN [executed EXCEPT ![1] = @ + 1] ELSE executed
            /\ logs' = (IF Len(wfCond) > 0
                          THEN << <<"Workflow started", 0>>, <<"Conditions evaluated: passed", 0>> >>
                          ELSE << <<"Workflow started", 0>> >>)
                       \o (IF startNext(0) = "action" THEN <<<<"Executing action", 1>>>> ELSE <<>>)
  /\ UNCHANGED <<wfActions, wfCond, wfData, exStatus, exResult, exError, exLogs, execCount,
                 lastExecStatus>>
  /\ UNCHANGED wfDbFailed
  /\ WfFrame

\* WorkflowExecution.updateStatus: result and error default to {} and NULL
updateStatus(status, result, error, lg) ==
  [status |-> status, result |-> result, error |-> error, logs |-> lg]

EmptyResult == [kind |-> "empty", actions |-> <<>>]

\* What Bull does with the job when the processor threw
wfJobFailed(job) ==
  [state |-> IF job.attemptsMade + 1 < workflowMaxRetries THEN "delayed" ELSE "failed",
   attemptsMade |-> job.attemptsMade + 1]

\* lines 1767-1773: persist the skipped outcome and return.
WfUpdateSkipped(dbOk) ==
  /\ wfJob.state = "active" /\ wfPc = "updSkipped"
  /\ IF dbOk
       THEN /\ LET u == updateStatus("skipped", [kind |-> "reason", actions |-> <<>>], NoError, logs)
               IN exStatus' = u.status /\ exResult' = u.result /\ exError' = u.error
                  /\ exLogs' = u.logs
            /\ wfJob' = [wfJob EXCEPT !.state = "completed"]
            /\ wfPc' = "-"
            /\ UNCHANGED <<logs, wfErr>>
       ELSE /\ wfPc' = "catchUpd"
            /\ wfErr' = DbError
            /\ logs' = Append(logs, <<"Workflow failed", 0>>)
            /\ UNCHANGED <<exStatus, exResult, exError, exLogs, wfJob>>
  /\ UNCHANGED <<wfActions, wfCond, wfData, execCount, lastExecStatus, wfIdx, results, started,
                 executed>>
  /\ wfDbFailed' = (wfDbFailed \/ ~dbOk)
  /\ WfFrame

\* lines 1786-1798 and 1812-1813: the action in flight returns or throws.
WfActionEnds(ok) ==
  /\ wfJob.state = "active" /\ wfPc = "action"
  /\ IF ok THEN canReturn(wfActions[wfIdx]) ELSE canThrow(wfActions[wfIdx])
  /\ results' = Append(results, [action |-> wfIdx, success |-> ok])
  /\ wfPc' = afterAction(ok, wfIdx)
  /\ IF afterAction(ok, wfIdx) = "action"
       THEN /\ wfIdx' = wfIdx + 1
            /\ started' = Append(started, wfIdx + 1)
            /\ executed' = [executed EXCEPT ![wfIdx + 1] = @ + 1]
            /\ logs' = logs \o << <<IF ok THEN "Action completed" ELSE "Action failed", wfIdx>>,
                                  <<"Executing action", wfIdx + 1>> >>
            /\ UNCHANGED wfErr
       ELSE IF afterAction(ok, wfIdx) = "updSuccess"
         THEN /\ logs' = Append(logs, <<IF ok THEN "Action completed" ELSE "Action failed", wfIdx>>)
              /\ UNCHANGED <<wfIdx, started, executed, wfErr>>
         ELSE /\ wfErr' = ActionError(wfIdx)
              /\ logs' = logs \o << <<"Action failed", wfIdx>>,
                                    <<"Workflow failed", wfIdx>> >>
              /\ UNCHANGED <<wfIdx, started, executed>>
  /\ UNCHANGED <<wfActions, wfCond, wfData, exStatus, exResult, exError, exLogs, execCount,
                 lastExecStatus, wfJob>>
  /\ UNCHANGED wfDbFailed
  /\ WfFrame

\* lines 1800-1805: persist the success outcome with result.actions.
WfUpdateSuccess(dbOk) ==
  /\ wfJob.state = "active" /\ wfPc = "updSuccess"
  /\ IF dbOk
       THEN /\ LET u == updateStatus("success", [kind |-> "actions", actions |-> results],
                                     NoError, logs)
               IN exStatus' = u.status /\ exResult' = u.result /\ exError' = u.error
                  /\ exLogs' = u.logs
            /\ wfPc' = "stats"
            /\ UNCHANGED <<logs, wfErr>>
       ELSE /\ wfPc' = "catchUpd"
            /\ wfErr' = DbError
            /\ logs' = Append(logs, <<"Workflow failed", 0>>)
            /\ UNCHANGED <<exStatus, exResult, exError, exLogs>>
  /\ UNCHANGED <<wfActions, wfCond, wfData, execCount, lastExecStatus, wfJob, wfIdx, results,
                 started, executed>>
  /\ wfDbFailed' = (wfDbFailed \/ ~dbOk)
  /\ WfFrame

\* Workflow.updateExecutionStats: the new (execution_count, last_execution_status)
updateExecutionStats(count, success) ==
  [count |-> count + 1, last |-> IF success THEN "success" ELSE "failed"]

\* lines 1807-1810: Workflow.updateExecutionStats(id, true), then return.
WfStats(dbOk) ==
  /\ wfJob.state = "active" /\ wfPc = "stats"
  /\ IF dbOk
       THEN /\ execCount' = updateExecutionStats(execCount, TRUE).count
            /\ lastExecStatus' = updateExecutionStats(execCount, TRUE).last
            /\ logs' = Append(logs, <<"Workflow completed successfully", 0>>)
            /\ wfJob' = [wfJob EXCEPT !.state = "completed"]
            /\ wfPc' = "-"
            /\ UNCHANGED wfErr
       ELSE /\ wfPc' = "catchUpd"
            /\ wfErr' = DbError
            /\ logs' = Append(logs, <<"Workflow failed", 0>>)
            /\ UNCHANGED <<execCount, lastExecStatus, wfJob>>
  /\ UNCHANGED <<wfActions, wfCond, wfData, exStatus, exResult, exError, exLogs, wfIdx, results,
                 started, executed>>
  /\ wfDbFailed' = (wfDbFailed \/ ~dbOk)
  /\ WfFrame

\* catch block, lines 1815-1819: persist the failed outcome.  No result is
\* passed, so the record's result becomes {}.  If the store rejects the update
\* the run ends with that error.
WfCatchUpdate(dbOk) ==
  /\ wfJob.state = "active" /\ wfPc = "catchUpd"
  /\ IF dbOk
       THEN /\ LET u == updateStatus("failed", EmptyResult, wfErr, logs)
               IN exStatus' = u.status /\ exResult' = u.result /\ exError' = u.error
                  /\ exLogs' = u.logs
            /\ wfPc' = "catchStats"
            /\ UNCHANGED wfJob
       ELSE /\ wfJob' = wfJobFailed(wfJob)
            /\ wfPc' = "-"
            /\ UNCHANGED <<exStatus, exResult, exError, exLogs>>
  /\ UNCHANGED <<wfActions, wfCond, wfData, execCount, lastExecStatus, wfIdx, results, logs, wfErr,
                 started, executed>>
  /\ wfDbFailed' = (wfDbFailed \/ ~dbOk)
  /\ WfFrame

\* lines 1821-1823 and 1721-1728: Workflow.updateExecutionStats(id, false),
\* then the error is rethrown to the queue.
WfCatchStats(dbOk) ==
  /\ wfJob.state = "active" /\ wfPc = "catchStats"
  /\ IF dbOk
       THEN /\ execCount' = updateExecutionStats(execCount, FALSE).count
            /\ lastExecStatus' = updateExecutionStats(execCount, FALSE).last
       ELSE UNCHANGED <<execCount, lastExecStatus>>
  /\ wfJob' = wfJobFailed(wfJob)
  /\ wfPc' = "-"
  /\ UNCHANGED <<wfActions, wfCond, wfData, exStatus, exResult, exError, exLogs, wfIdx, results,
                 logs, wfErr, started, executed>>
  /\ wfDbFailed' = (wfDbFailed \/ ~dbOk)
  /\ WfFrame

\* The exponential backoff of the failed job has run out.
WfDelayElapsed ==
  /\ wfJob.state = "delayed"
  /\ wfJob' = [wfJob EXCEPT !.state = "waiting"]
  /\ UNCHANGED <<wfActions, wfCond, wfData, exStatus, exResult, exError, exLogs, execCount,
                 lastExecStatus, wfPc, wfIdx, results, logs, wfErr, started, executed>>
  /\ UNCHANGED wfDbFailed
  /\ WfFrame

WfNext ==
  \/ /\ exStatus = "none"     \* one execution: its inputs are drawn once
     /\ \E acts \in ActionLists, conds \in CondLists, data \in TriggerData :
          WfExecute(acts, conds, data)
  \/ WfClaim
  \/ \E dbOk \in BOOLEAN : WfUpdateSkipped(dbOk)
  \/ \E ok \in BOOLEAN : WfActionEnds(ok)
  \/ \E dbOk \in BOOLEAN : WfUpdateSuccess(dbOk)
  \/ \E dbOk \in BOOLEAN : WfStats(dbOk)
  \/ \E dbOk \in BOOLEAN : WfCatchUpdate(dbOk)
  \/ \E dbOk \in BOOLEAN : WfCatchStats(dbOk)
  \/ WfDelayElapsed

\* ------------------------------------------------------------------------
\* ZK proof generation (src/services/bitquery.js 863-993, src/models/ZkProof.js,
\* src/routes/v1/zk/index.js 64-99)
\* ------------------------------------------------------------------------
zkAttempts == 2           \* defaultJobOptions.attempts of proofQueue, line 873

NoZkJob == [state |-> "absent", attemptsMade |-> 0, pc |-> "-"]
NoProofId == 0            \* `undefined`: job.data has no proofId field

\* The proofId the processor reads from job.data (line 880).
jobProofId(r) == IF zkHasId[r] THEN r ELSE NoProofId

\* ZkProof.updateStatus, lines 43-64: UPDATE ... SET status = $2 WHERE id = $1.
zkUpdateStatus(rec, id, status) ==
  [x \in ProofIds |-> IF x = id THEN status ELSE rec[x]]

\* proofQueue.getWaitingCount(): the jobs waiting to be claimed.
getWaitingCount == Cardinality({r \in ProofIds : zkJob[r].state = "waiting"})

\* POST /proofs/generate, lines 68-82: ZkProof.create inserts the row with
\* status 'pending'; then queueProofGeneration is entered.  The route's call
\* (lines 85-90) passes data without a proofId; withId = TRUE is a caller of
\* queueProofGeneration whose data carries it.
ZkCreate(r, withId, valid) ==
  /\ zkReq[r] = "new"
  /\ \A q \in ProofIds : q < r => zkReq[q] # "new"
  /\ zkRec' = [zkRec EXCEPT ![r] = "pending"]
  /\ zkHasId' = [zkHasId EXCEPT ![r] = withId]
  /\ zkValid' = [zkValid EXCEPT ![r] = valid]
  /\ zkReq' = [zkReq EXCEPT ![r] = "count"]
  /\ UNCHANGED <<zkJob, zkProver, zkDbFailed>>
  /\ ZkFrame

\* queueProofGeneration lines 917-921: the waiting count is read and compared.
ZkCount(r) ==
  /\ zkReq[r] = "count"
  /\ zkReq' = [zkReq EXCEPT ![r] =
                 IF getWaitingCount >= ZkMaxQueueSize THEN "rejected" ELSE "add"]
  /\ UNCHANGED <<zkHasId, zkValid, zkRec, zkJob, zkProver, zkDbFailed>>
  /\ ZkFrame

\* queueProofGeneration line 923: proofQueue.add(data).
ZkAdd(r) ==
  /\ zkReq[r] = "add"
  /\ zkJob' = [zkJob EXCEPT ![r] = [state |-> "waiting", attemptsMade |-> 0, pc |-> "-"]]
  /\ zkReq' = [zkReq EXCEPT ![r] = "queued"]
  /\ UNCHANGED <<zkHasId, zkValid, zkRec, zkProver, zkDbFailed>>
  /\ ZkFrame

\* The processor (lines 879-891, concurrency 1) takes a waiting job and enters
\* generateProofInternal.
ZkClaim(r) ==
  /\ zkJob[r].state = "waiting"
  /\ \A q \in ProofIds : zkJob[q].state # "active"
  /\ zkJob' = [zkJob EXCEPT ![r] = [@ EXCEPT !.state = "active", !.pc = "processing"]]
  /\ UNCHANGED <<zkReq, zkHasId, zkValid, zkRec, zkProver, zkDbFailed>>
  /\ ZkFrame

\* generateProofInternal line 936: updateStatus(proofId, {status: 'processing'}).
ZkProcessing(r, dbOk) ==
  /\ zkJob[r].state = "active" /\ zkJob[r].pc = "processing"
  /\ IF dbOk
       THEN /\ zkRec' = zkUpdateStatus(zkRec, jobProofId(r), "processing")
            /\ zkJob' = [zkJob EXCEPT ![r].pc = "prove"]
            /\ UNCHANGED zkDbFailed
       ELSE /\ zkJob' = [zkJob EXCEPT ![r].pc = "catch"]
            /\ zkDbFailed' = TRUE
            /\ UNCHANGED zkRec
  /\ UNCHANGED <<zkReq, zkHasId, zkValid, zkProver>>
  /\ ZkFrame

ProveOutcomes == {"proof", "prover-error", "no-circuit-files"}

\* simulateProofGeneration, lines 999-1046: it throws before the prover is
\* called when the circuit files are missing; otherwise fullProve is invoked
\* and returns a proof (only for a true statement) or throws.
ZkProve(r, res) ==
  /\ zkJob[r].state = "active" /\ zkJob[r].pc = "prove"
  /\ res = "proof" => zkValid[r]
  /\ zkProver' = [zkProver EXCEPT ![r] = IF res = "no-circuit-files" THEN @ ELSE @ + 1]
  /\ zkJob' = [zkJob EXCEPT ![r].pc = IF res = "proof" THEN "completed" ELSE "catch"]
  /\ UNCHANGED <<zkReq, zkHasId, zkValid, zkRec, zkDbFailed>>
  /\ ZkFrame

\* lines 945-970: updateStatus(completed); the notification cannot throw
\* (sendNotification swallows its errors); the processor returns and the job
\* completes.
ZkCompleted(r, dbOk) ==
  /\ zkJob[r].state = "active" /\ zkJob[r].pc = "completed"
  /\ IF dbOk
       THEN /\ zkRec' = zkUpdateStatus(zkRec, jobProofId(r), "completed")
            /\ zkJob' = [zkJob EXCEPT ![r] = [@ EXCEPT !.state = "completed", !.pc = "-"]]
            /\ UNCHANGED zkDbFailed
       ELSE /\ zkJob' = [zkJob EXCEPT ![r].pc = "catch"]
            /\ zkDbFailed' = TRUE
            /\ UNCHANGED zkRec
  /\ UNCHANGED <<zkReq, zkHasId, zkValid, zkProver>>
  /\ ZkFrame

\* The queue's handling of a failed attempt: attempts left -> waiting again
\* (no backoff is configured), otherwise failed.
zkJobFailed(job) ==
  IF job.attemptsMade + 1 < zkAttempts
    THEN [state |-> "waiting", attemptsMade |-> job.attemptsMade + 1, pc |-> "-"]
    ELSE [state |-> "failed", attemptsMade |-> job.attemptsMade + 1, pc |-> "-"]

\* lines 972-992: the catch block writes 'failed' and rethrows; the processor
\* rethrows (line 889) and the attempt fails.
ZkCatch(r, dbOk) ==
  /\ zkJob[r].state = "active" /\ zkJob[r].pc = "catch"
  /\ IF dbOk
       THEN zkRec' = zkUpdateStatus(zkRec, jobProofId(r), "failed") /\ UNCHANGED zkDbFailed
       ELSE zkDbFailed' = TRUE /\ UNCHANGED zkRec
  /\ zkJob' = [zkJob EXCEPT ![r] = zkJobFailed(@)]
  /\ UNCHANGED <<zkReq, zkHasId, zkValid, zkProver>>
  /\ ZkFrame

ZkNext ==
  \/ \E r \in ProofIds, withId \in BOOLEAN, valid \in BOOLEAN : ZkCreate(r, withId, valid)
  \/ \E r \in ProofIds : ZkCount(r)
  \/ \E r \in ProofIds : ZkAdd(r)
  \/ \E r \in ProofIds : ZkClaim(r)
  \/ \E r \in ProofIds, dbOk \in BOOLEAN : ZkProcessing(r, dbOk)
  \/ \E r \in ProofIds, res \in ProveOutcomes : ZkProve(r, res)
  \/ \E r \in ProofIds, dbOk \in BOOLEAN : ZkCompleted(r, dbOk)
  \/ \E r \in ProofIds, dbOk \in BOOLEAN : ZkCatch(r, dbOk)

\* ------------------------------------------------------------------------
\* Direct balance proof (src/services/bitquery.js 1079-1107)
\* ------------------------------------------------------------------------
Amounts == 0..MaxAmount

\* (variant: a balance equal to the threshold is rejected too)
belowThreshold_OrEqual(balanceNum, thresholdNum) == balanceNum <= thresholdNum

\* line 1083: balanceNum < thresholdNum
belowThreshold(balanceNum, thresholdNum) == balanceNum < thresholdNum

\* generateBalanceProof lines 1079-1097: the precondition check throws, or the
\* inputs are built and snarkjs.groth16.fullProve is called (first await).
BalStart(balance, threshold) ==
  /\ balPc = "idle"
  /\ balInputs' = [balance |-> balance, threshold |-> threshold]
  /\ IF belowThreshold(balance, threshold)
       THEN balPc' = "belowThreshold" /\ balProver' = 0
       ELSE balPc' = "proving" /\ balProver' = 1
  /\ BalFrame

\* lines 1093-1106: the prover returns the proof, which is returned, or throws.
BalProverEnds(ok) ==
  /\ balPc = "proving"
  /\ balPc' = IF ok THEN "returned" ELSE "proverError"
  /\ UNCHANGED <<balInputs, balProver>>
  /\ BalFrame

\* The route handler (routes/v1/zk/index.js 226-254) answers; the call is over.
BalAnswer ==
  /\ balPc \in {"belowThreshold", "returned", "proverError"}
  /\ balPc' = "idle"
  /\ balInputs' = [balance |-> 0, threshold |-> 0]
  /\ balProver' = 0
  /\ BalFrame

BalNext ==
  \/ \E balance \in Amounts, threshold \in Amounts : BalStart(balance, threshold)
  \/ \E ok \in BOOLEAN : BalProverEnds(ok)
  \/ BalAnswer

\* ------------------------------------------------------------------------
\* Condition evaluation alone: every operator, fields present and missing
\* ------------------------------------------------------------------------
EvalFields == {"amount", "price"}
EvalOperators == {"equals", "not_equals", "greater_than", "less_than", "contains", "exists"}
EvalValues == {50, 100}
EvalConds ==
  {[field |-> f, operator |-> op, value |-> v] :
     f \in EvalFields, op \in EvalOperators, v \in EvalValues}
EvalCondLists == UNION {[1..n -> EvalConds] : n \in 1..MaxConds}
EvalData == {[amount |-> 50], [amount |-> 150], [price |-> 100]}

\* executeWorkflow lines 1763-1776: the conditions of a run are evaluated;
\* the run is skipped when they are not met and goes on to its actions
\* otherwise.
CondCheck(conds, data) ==
  /\ condPc = "idle"
  /\ condList' = conds
  /\ condData' = data
  /\ condOut' = IF Len(conds) > 0 /\ ~evaluateConditions(conds, data)
                  THEN "skipped" ELSE "actions"
  /\ condPc' = "checked"
  /\ CondFrame

\* The run is over; the next one may start.
CondDone ==
  /\ condPc = "checked"
  /\ condPc' = "idle"
  /\ condList' = <<>>
  /\ condData' = NoData
  /\ condOut' = "-"
  /\ CondFrame

CondNext ==
  \/ /\ condPc = "idle"
     /\ \E conds \in EvalCondLists, data \in EvalData : CondCheck(conds, data)
  \/ CondDone

\* ------------------------------------------------------------------------
\* Provider pool on a clock: selections, answers and cooldown timers in time
\* ------------------------------------------------------------------------
\* The 60000 ms of the setTimeout in markProviderFailed (line 72), in ticks
CooldownTicks == 2

Inflight == inflight["primary"] + inflight["fallback"] + inflight["triton"]

\* rpcRequest lines 85-99: getHealthyProvider picks the provider (resetting
\* the primary when none is healthy) and the POST is issued to it.
PoolSelect ==
  /\ Inflight < MaxInflight
  /\ providerHealth' = getHealthyProviderHealth(providerHealth)
  /\ inflight' = [inflight EXCEPT ![getHealthyProviderName(providerHealth)] = @ + 1]
  /\ markedAt' = IF NoneHealthy(providerHealth)
                   THEN [markedAt EXCEPT !["primary"] = -1] ELSE markedAt
  /\ UNCHANGED <<poolNow, timerDue>>
  /\ PoolFrame

\* rpcRequest lines 101-105: the provider answered; the health is not touched.
PoolSuccess(n) ==
  /\ inflight[n] > 0
  /\ inflight' = [inflight EXCEPT ![n] = @ - 1]
  /\ UNCHANGED <<providerHealth, poolNow, timerDue, markedAt>>
  /\ PoolFrame

\* rpcRequest lines 106-108 and markProviderFailed lines 60-75: the POST
\* failed; the failure is counted and, at the threshold or over it, the
\* provider is set unhealthy and a timer is set 60 s ahead.
PoolFailure(n) ==
  /\ inflight[n] > 0
  /\ providerHealth[n].failures < MaxFailCount
  /\ inflight' = [inflight EXCEPT ![n] = @ - 1]
  /\ providerHealth' = markProviderFailed(providerHealth, n).health
  /\ timerDue' = IF markProviderFailed(providerHealth, n).armed
                   THEN timerDue \cup {[name |-> n, at |-> poolNow + CooldownTicks]}
                   ELSE timerDue
  /\ markedAt' = IF providerHealth[n].healthy
                      /\ ~markProviderFailed(providerHealth, n).health[n].healthy
                   THEN [markedAt EXCEPT ![n] = poolNow] ELSE markedAt
  /\ UNCHANGED poolNow
  /\ PoolFrame

\* The setTimeout callback of markProviderFailed, lines 68-72, runs when its
\* time has come.
PoolTimerFire(t) ==
  /\ t \in timerDue
  /\ t.at <= poolNow
  /\ timerDue' = timerDue \ {t}
  /\ providerHealth' = [providerHealth EXCEPT ![t.name] = [healthy |-> TRUE, failures |-> 0]]
  /\ UNCHANGED <<poolNow, inflight, markedAt>>
  /\ PoolFrame

\* Time passes; a timer that is due runs before the clock moves on.
PoolTick ==
  /\ poolNow < MaxPoolTime
  /\ \A t \in timerDue : t.at > poolNow
  /\ poolNow' = poolNow + 1
  /\ UNCHANGED <<providerHealth, timerDue, inflight, markedAt>>
  /\ PoolFrame

PoolNext ==
  \/ PoolSelect
  \/ \E n \in NameSet : PoolSuccess(n)
  \/ \E n \in NameSet : PoolFailure(n)
  \/ \E t \in timerDue : PoolTimerFire(t)
  \/ PoolTick

\* ------------------------------------------------------------------------
\* Specifications
\* ------------------------------------------------------------------------
\* The state after the modules are loaded: an empty rate-limit key, all
\* providers healthy, no delivery, no execution.
Init ==
  \* rate limiter
  /\ now = 0
  /\ zset = {}
  /\ expireAt = -1
  /\ storeUp = TRUE
  /\ rlPc = [p \in RLProcs |-> "idle"]
  /\ rlNow = [p \in RLProcs |-> 0]
  /\ rlId = [p \in RLProcs |-> 0]
  /\ rlCount = [p \in RLProcs |-> 0]
  /\ rlResult = [p \in RLProcs |-> NoResult]
  /\ rlResp = [p \in RLProcs |-> "none"]
  /\ calls = 0
  /\ admitted = {}
  /\ rlSeq = TRUE
  \* provider pool (providerHealth, lines 32-36)
  /\ providerHealth = HealthInit
  /\ timers = [n \in NameSet |-> 0]
  /\ down = {}
  /\ rpcPc = [c \in RpcCallers |-> "idle"]
  /\ attempt = [c \in RpcCallers |-> 0]
  /\ provider = [c \in RpcCallers |-> "primary"]
  /\ lastError = [c \in RpcCallers |-> 0]
  /\ waits = [c \in RpcCallers |-> <<>>]
  /\ posts = [c \in RpcCallers |-> 0]
  /\ viaReset = [c \in RpcCallers |-> FALSE]
  /\ outcome = [c \in RpcCallers |-> "none"]
  /\ solo = [c \in RpcCallers |-> FALSE]
  /\ okAfterFail = [n \in NameSet |-> FALSE]
  \* webhook delivery
  /\ dStatus = "none"
  /\ dAttempt = 0
  /\ dCode = 0
  /\ lastTriggered = FALSE
  /\ jobs = [j \in JobIds |-> NoJob]
  /\ whPosts = 0
  /\ responses = <<>>
  /\ rfPc = "idle"
  /\ whDbFailed = FALSE
  \* workflow execution
  /\ wfActions = <<>>
  /\ wfCond = <<>>
  /\ wfData = NoData
  /\ exStatus = "none"
  /\ exResult = NoRecordResult
  /\ exError = NoError
  /\ exLogs = <<>>
  /\ execCount = 0
  /\ lastExecStatus = "null"
  /\ wfJob = [state |-> "absent", attemptsMade |-> 0]
  /\ wfPc = "-"
  /\ wfIdx = 0
  /\ results = <<>>
  /\ logs = <<>>
  /\ wfErr = NoError
  /\ started = <<>>
  /\ executed = [i \in 1..MaxActions |-> 0]
  /\ wfDbFailed = FALSE
  \* proof generation
  /\ zkReq = [r \in ProofIds |-> "new"]
  /\ zkHasId = [r \in ProofIds |-> FALSE]
  /\ zkValid = [r \in ProofIds |-> FALSE]
  /\ zkRec = [r \in ProofIds |-> "absent"]
  /\ zkJob = [r \in ProofIds |-> NoZkJob]
  /\ zkProver = [r \in ProofIds |-> 0]
  /\ zkDbFailed = FALSE
  \* direct balance proof
  /\ balPc = "idle"
  /\ balInputs = [balance |-> 0, threshold |-> 0]
  /\ balProver = 0
  /\ condPc = "idle"
  /\ condList = <<>>
  /\ condData = NoData
  /\ condOut = "-"
  /\ poolNow = 0
  /\ timerDue = {}
  /\ inflight = [n \in NameSet |-> 0]
  /\ markedAt = [n \in NameSet |-> -1]

SpecRL == Init /\ [][RLNext]_vars
SpecRLSeq == Init /\ [][RLSeqNext]_vars
SpecRpc == Init /\ [][RpcNext]_vars
SpecWh == Init /\ [][WhNext]_vars
SpecWf == Init /\ [][WfNext]_vars
SpecZk == Init /\ [][ZkNext]_vars
SpecBal == Init /\ [][BalNext]_vars
SpecCond == Init /\ [][CondNext]_vars
SpecPool == Init /\ [][PoolNext]_vars
\* ------------------------------------------------------------------------
\* Properties
\* ------------------------------------------------------------------------

\* The calls the store admitted (not by fail-open) inside the window that ends now.
AdmittedInWindow == {a \in admitted : ~a.failOpen /\ a.t > now - RLWindow}

\* C1: for any interleaving of concurrent checkRateLimit calls on the key, the
\* number of calls admitted within one window never exceeds maxRequests.
C1_AdmittedWithinLimit == Cardinality(AdmittedInWindow) <= RLMaxRequests

\* The first endpoint, in preference order, that answers requests (0: none does).
FirstUp ==
  IF down = NameSet THEN 0
  ELSE CHOOSE i \in 1..Len(Names) :
         /\ Names[i] \notin down
         /\ \A j \in 1..(i - 1) : Names[j] \in down

\* A finished call that ran alone from a fresh pool while the first M endpoints
\* failed every request and endpoint M+1 answered: it returned endpoint M+1's
\* result, and each of the first M endpoints is unhealthy with exactly 2 failures.
Failover(c, M) ==
  (rpcPc[c] = "done" /\ solo[c] /\ FirstUp = M + 1)
    => /\ outcome[c] = "ok"
       /\ provider[c] = Names[M + 1]
       /\ posts[c] = 2 * M + 1
       /\ \A i \in 1..M : /\ ~providerHealth[Names[i]].healthy
                          /\ providerHealth[Names[i]].failures = 2

\* C4 as claimed: failover to endpoint M+1 within a single call for every M < N.
C4_FailoverEveryM == \A c \in RpcCallers : \A M \in 0..(Len(Names) - 1) : Failover(c, M)

\* C4 amended: failover within a single call for every M with 2M+1 <= 3 attempts,
\* that is M <= 1; the first M endpoints are unhealthy after exactly 2 failures.
C4_FailoverWithinBudget == \A c \in RpcCallers : \A M \in 0..1 : Failover(c, M)

C4_Witness ==
  \E c \in RpcCallers :
    /\ rpcPc[c] = "done" /\ solo[c] /\ FirstUp = 2
    /\ outcome[c] = "ok" /\ provider[c] = "fallback"
    /\ ~providerHealth["primary"].healthy

\* The indexes of the endpoints whose healthy flag is set.
HealthyIdx(h) == {i \in 1..Len(Names) : h[Names[i]].healthy}
MinOf(S) == CHOOSE i \in S : \A j \in S : i <= j

\* C5: every selection returns an endpoint: the first healthy one in the order
\* primary, fallback, triton, leaving the health table alone; and when none is
\* healthy, the primary, after setting it healthy with failure count 0.
C5_SelectFirstHealthy ==
  [][\A c \in RpcCallers :
       (rpcPc[c] # "request" /\ rpcPc'[c] = "request") =>
         IF HealthyIdx(providerHealth) # {}
           THEN /\ provider'[c] = Names[MinOf(HealthyIdx(providerHealth))]
                /\ providerHealth' = providerHealth
           ELSE /\ provider'[c] = "primary"
                /\ providerHealth' = [providerHealth EXCEPT
                                        !["primary"] = [healthy |-> TRUE, failures |-> 0]]
    ]_vars

C5_Witness ==
  \E c \in RpcCallers :
    /\ rpcPc[c] = "request" /\ viaReset[c] /\ provider[c] = "primary"
    /\ providerHealth["primary"].healthy
    /\ ~providerHealth["fallback"].healthy /\ ~providerHealth["triton"].healthy

\* C6: one call issues at most 3 POSTs, one at a time; it sleeps 200ms after the
\* first failure and 400ms after the second; after the third failure it throws
\* the third attempt's error.
C6_RetryBudget ==
  \A c \in RpcCallers :
    /\ posts[c] <= 3
    /\ rpcPc[c] = "request" => Len(waits[c]) = posts[c] - 1
    /\ rpcPc[c] = "backoff" => Len(waits[c]) = posts[c]
    /\ \A i \in 1..Len(waits[c]) : waits[c][i] = 200 * i
    /\ Len(waits[c]) <= 2
    /\ outcome[c] = "throw" =>
         /\ rpcPc[c] = "done" /\ posts[c] = 3
         /\ waits[c] = <<200, 400>> /\ lastError[c] = 3

C6_Witness == \E c \in RpcCallers : outcome[c] = "throw" /\ posts[c] = 3
\* C2: a delivery is POSTed at most maxAttempts times in total, counting the
\* queue's own retries and every job re-enqueued by retryFailed.
C2_PostsWithinMaxAttempts == ~whDbFailed => whPosts <= webhookMaxRetries

\* C3: when the receiver answered 500, 500 and then 200, the delivery record
\* ends with status success and attempt 3, the number of POSTs made.
C3_AttemptCountsPosts ==
  (~whDbFailed /\ dStatus = "success" /\ responses = <<500, 500, 200>> /\ whPosts = 3)
    => dAttempt = 3
TerminalStatus == {"success", "failed", "skipped"}

\* C7: once the execution record's status is success, failed or skipped, no
\* later step changes it.
C7_TerminalStatusKept ==
  [][(exStatus \in TerminalStatus /\ ~wfDbFailed') => (exStatus' = exStatus)]_vars

\* C8: an execution adds exactly 1 to the workflow's execution_count, whatever
\* its outcome and however often the queue retried the job.
C8_StatsOncePerExecution ==
  ~wfDbFailed =>
    /\ execCount <= 1
    /\ wfJob.state \in {"completed", "failed"} => execCount = 1

\* C9: within one run the actions are started in declaration order, each only
\* after the one before it returned successfully; an action that threw is the
\* last one started, and once the catch block has persisted the outcome the
\* record is failed with that action's error message.
C9_SequentialFailFast ==
  /\ Len(started) <= Len(wfActions)
  /\ \A i \in 1..Len(started) : started[i] = i
  /\ Len(results) = IF wfPc = "action" THEN Len(started) - 1 ELSE Len(started)
  /\ \A i \in 1..Len(results) :
       /\ results[i].action = i
       /\ i < Len(started) => results[i].success
  /\ (Len(results) > 0 /\ ~results[Len(results)].success) =>
       /\ wfPc \in {"catchUpd", "catchStats", "-"}
       /\ wfErr = ActionError(Len(results))
       /\ (wfPc = "catchStats" \/ (wfPc = "-" /\ ~wfDbFailed)) =>
            exStatus = "failed" /\ exError = ActionError(Len(results))

C9_Witness ==
  /\ Len(wfActions) = 3
  /\ wfPc = "catchStats"
  /\ started = <<1, 2>>
  /\ results = <<[action |-> 1, success |-> TRUE], [action |-> 2, success |-> FALSE]>>
  /\ exStatus = "failed" /\ exError = ActionError(2)

\* C10: when an action failed, the persisted failed record's result.actions
\* holds the result of every action attempted, the failing one last.
C10_FailedRecordKeepsResults ==
  (~wfDbFailed /\ wfPc = "catchStats" /\ exStatus = "failed") =>
     /\ exResult.kind = "actions"
     /\ exResult.actions = results
     /\ Len(results) > 0 /\ ~results[Len(results)].success
\* C11: the status of a proof record only moves pending -> processing ->
\* completed or failed, and a completed or failed record never changes again,
\* also when the queue runs the job a second time (no store failure involved).
ZkMoves == {<<"absent", "pending">>, <<"pending", "processing">>,
            <<"processing", "completed">>, <<"processing", "failed">>}
C12_NoAddWhenFull ==
  [][\A r \in ProofIds :
       (zkJob[r].state = "absent" /\ zkJob'[r].state = "waiting")
         => (getWaitingCount < ZkMaxQueueSize)]_vars
\* C13: with calls made one after the other, a call is allowed exactly when
\* fewer than maxRequests earlier calls were admitted within the last
\* windowSeconds: the first N are allowed, the (N+1)-th is denied, and a call
\* made once the admitted calls are W seconds old is allowed again.
EarlierInWindow(p) ==
  {a \in admitted : a.id # rlId[p] /\ a.t > windowStart(p)}
C13_SequentialWindow ==
  \A p \in RLProcs :
    (rlSeq /\ rlPc[p] = "checked")
      => (rlResult[p].allowed <=> Cardinality(EarlierInWindow(p)) < RLMaxRequests)

\* a call allowed again after a full window of admitted calls has aged out
C13_Witness ==
  \E p \in RLProcs :
    /\ rlSeq /\ rlPc[p] = "checked" /\ rlResult[p].allowed
    /\ Cardinality({a \in admitted : a.id # rlId[p] /\ a.t = windowStart(p)}) = RLMaxRequests
\* C14: a job attempt completes only after an answer with a status in
\* [200,300); after any other answer (4xx, or 5xx / timeout / network error)
\* the attempt ends with the delivery record failed and the job attempt failed,
\* which uses up one of the job's attempts.
AttemptEnds(j) == jobs[j].state = "active" /\ jobs'[j].state # "active"
C14_SuccessOnly2xx ==
  [][\A j \in JobIds :
       AttemptEnds(j) =>
         /\ (jobs'[j].state = "completed") => (jobs[j].resp >= 200 /\ jobs[j].resp < 300)
         /\ (~(jobs[j].resp >= 200 /\ jobs[j].resp < 300) /\ ~whDbFailed')
              => /\ dStatus' = "failed"
                 /\ jobs'[j].state \in {"delayed", "failed"}
                 /\ jobs'[j].attemptsMade = jobs[j].attemptsMade + 1]_vars

\* the first attempt was answered 404 and has failed
C14_Witness ==
  /\ ~whDbFailed /\ dStatus = "failed"
  /\ responses = <<404>>
  /\ jobs[1].state = "delayed" /\ jobs[1].attemptsMade = 1

\* C15: when deliverWebhook has finished an attempt that received an HTTP
\* answer, the delivery record holds that answer's response code, and its
\* attempt count is what it was.
C15_ResponseCodeKept ==
  [][\A j \in JobIds :
       (AttemptEnds(j) /\ jobs[j].resp < 500 /\ ~whDbFailed')
         => (dCode' = jobs[j].resp /\ dAttempt' = dAttempt)]_vars
\* C16: with an empty condition list, or with every condition met, the
\* workflow's actions run; with any condition unmet no action is executed and
\* the execution ends skipped (amount greater_than 100: amount = 50 is skipped
\* with zero actions, amount = 150 runs the actions).
AmountMeets(c) ==
  IF c.operator = "greater_than" THEN wfData.amount > c.value ELSE wfData.amount < c.value
AnyUnmet == \E i \in 1..Len(wfCond) : ~AmountMeets(wfCond[i])
C16_ConditionsGate ==
  /\ AnyUnmet =>
       /\ \A i \in 1..MaxActions : executed[i] = 0
       /\ started = <<>>
       /\ (wfJob.state = "completed" /\ ~wfDbFailed) => exStatus = "skipped"
  /\ (~AnyUnmet /\ wfJob.state \in {"active", "delayed", "completed", "failed"}) =>
       /\ exStatus # "skipped"
       /\ Len(wfActions) > 0 => executed[1] >= 1

\* amount = 50 against `amount greater_than 100`: skipped, no action executed
C16_Witness ==
  /\ wfCond = <<[field |-> "amount", operator |-> "greater_than", value |-> 100]>>
  /\ wfData = [amount |-> 50]
  /\ Len(wfActions) > 0
  /\ wfJob.state = "completed" /\ exStatus = "skipped"
  /\ \A i \in 1..MaxActions : executed[i] = 0
\* C17: generateBalanceProof invokes the prover exactly once when
\* balance >= threshold, and never when balance < threshold, where it fails at
\* once with the below-threshold error.
C17_ProverOnlyAboveThreshold ==
  balPc # "idle" =>
    /\ (balInputs.balance >= balInputs.threshold) =>
         (balProver = 1 /\ balPc \in {"proving", "returned", "proverError"})
    /\ (balInputs.balance < balInputs.threshold) =>
         (balProver = 0 /\ balPc = "belowThreshold")

\* a call with balance = threshold has invoked the prover and returned
C17_Witness ==
  /\ balPc = "returned" /\ balProver = 1
  /\ balInputs.balance = balInputs.threshold /\ balInputs.threshold > 0
\* C18: when a store operation of checkRateLimit fails, checkRateLimit returns
\* allowed = true, and the middleware then passes the request on (no 429).
StoreOps == {"zrem", "zcard", "zadd", "expire"}
C18_FailOpen ==
  [][\A p \in RLProcs :
       /\ (rlPc[p] \in StoreOps /\ ~storeUp /\ rlPc'[p] # rlPc[p])
            => (rlPc'[p] = "checked" /\ rlResult'[p].allowed)
       /\ (rlPc[p] = "checked" /\ rlPc'[p] = "idle"
             /\ [t |-> rlNow[p], id |-> rlId[p], failOpen |-> TRUE] \in admitted)
            => rlResp'[p] = "next"]_vars

\* a call was let through by a store failure although the key was full
C18_Witness ==
  \E p \in RLProcs :
    /\ rlPc[p] = "checked" /\ rlResult[p].allowed
    /\ [t |-> rlNow[p], id |-> rlId[p], failOpen |-> TRUE] \in admitted
    /\ zcard(zset) >= RLMaxRequests
\* C20: an endpoint becomes unhealthy only on a failure that is at least the
\* second in a row on it: when the last request on the endpoint succeeded, the
\* next failure does not mark it unhealthy.
C20_UnhealthyAfterTwoInARow ==
  [][\A n \in NameSet :
       (providerHealth[n].healthy /\ ~providerHealth'[n].healthy) => ~okAfterFail[n]]_vars
\* C30: in every reachable state each endpoint's healthy flag is true exactly
\* when its failure count is below 2, whatever the interleaving of calls,
\* timer firings and fail-open resets.
C30_HealthyIffBelowTwo ==
  \A n \in NameSet : providerHealth[n].healthy <=> (providerHealth[n].failures < 2)

\* the primary was reset by a fail-open selection while the others are unhealthy
C30_Witness ==
  /\ \E c \in RpcCallers : rpcPc[c] = "request" /\ viaReset[c] /\ provider[c] = "primary"
  /\ providerHealth["primary"].healthy /\ providerHealth["primary"].failures = 0
  /\ ~providerHealth["fallback"].healthy /\ providerHealth["fallback"].failures = 2
  /\ ~providerHealth["triton"].healthy /\ timers["triton"] = 1

\* C22: once the delivery record has status success, no later step changes
\* its status (no failure after the successful POST, no queue retry, no job
\* re-enqueued by retryFailed), even when every store command succeeds.
C22_SuccessStatusKept ==
  [][(dStatus = "success" /\ ~whDbFailed') => dStatus' = "success"]_vars

\* The jobs of the delivery that are waiting, delayed or active
LiveJobs == {j \in JobIds : jobs[j].state \in {"waiting", "delayed", "active"}}

\* C29: at any time at most one waiting, delayed or active job exists for the
\* delivery, however often retryFailed runs.
C29_OneLiveJobPerDelivery == ~whDbFailed => Cardinality(LiveJobs) <= 1

\* C23: a request accepted by POST /proofs/generate (its job data is the
\* route's, without proofId) never has its record still pending once its job
\* has been processed to the end: the record is then completed or failed.
C23_RecordFollowsJob ==
  \A r \in ProofIds :
    (~zkDbFailed /\ ~zkHasId[r] /\ zkJob[r].state \in {"completed", "failed"})
      => zkRec[r] \in {"completed", "failed"}

\* C24: a proof job whose statement is false is never retried: the prover is
\* invoked at most once for it and the job fails at its first attempt.
C24_FalseStatementNotRetried ==
  \A r \in ProofIds :
    (~zkDbFailed /\ ~zkValid[r])
      => /\ zkProver[r] <= 1
         /\ zkJob[r].attemptsMade >= 1 => zkJob[r].state = "failed"

\* The message that reports the final outcome of an execution with this status
FinalEntry(status) ==
  CASE status = "success" -> "Workflow completed successfully"
    [] status = "failed" -> "Workflow failed"
    [] OTHER -> "Conditions not met, skipping"

\* C26: the logs persisted with a finished execution are complete and in
\* order: the start entry first, a start entry followed by an outcome entry
\* for every action attempted, and the final-outcome entry last, for success,
\* failed and skipped executions alike.
C26_PersistedLogsComplete ==
  (~wfDbFailed /\ wfJob.state \in {"completed", "failed"}) =>
    /\ Len(exLogs) >= 2
    /\ exLogs[1] = <<"Workflow started", 0>>
    /\ exLogs[Len(exLogs)][1] = FinalEntry(exStatus)
    /\ \A k \in 1..Len(started) :
         \E i \in 1..Len(exLogs) :
           /\ exLogs[i] = <<"Executing action", started[k]>>
           /\ i < Len(exLogs)
           /\ exLogs[i + 1][1] \in {"Action completed", "Action failed"}
           /\ exLogs[i + 1][2] = started[k]

\* C28: within one execution an action that already succeeded (a later
\* action was started after it) is not executed again when the run fails at a
\* later action and the queue retries the job: it is executed at most once.
C28_ActionsAtMostOnce ==
  [][\A i \in 1..MaxActions :
       (~wfDbFailed' /\ executed'[i] > executed[i])
         => \A j \in 1..MaxActions : j > i => executed[j] = 0]_vars

\* The operators that C25 names as unmet on a missing field
UnmetWhenMissing == {"equals", "greater_than", "less_than", "contains", "exists"}

\* C25: when the field of a condition is missing from the trigger data and
\* its operator is equals, greater_than, less_than, contains or exists, the
\* condition is unmet and the execution is skipped.
C25_MissingFieldSkips ==
  (/\ condPc = "checked"
   /\ \E i \in 1..Len(condList) :
        /\ condList[i].field \notin DOMAIN condData
        /\ condList[i].operator \in UnmetWhenMissing)
    => condOut = "skipped"

\* The number of retries scheduled for the delivery so far: the jobs added by
\* retryFailed plus the failed attempts the queue rescheduled.
RECURSIVE QueueRetries(_)
QueueRetries(n) ==
  IF n = 0 THEN 0
  ELSE QueueRetries(n - 1) + jobs[n].attemptsMade
         - (IF jobs[n].state = "failed" THEN 1 ELSE 0)
RetryNo ==
  QueueRetries(MaxJobs) + Cardinality({j \in JobIds : jobs[j].state # "absent"}) - 1

\* The n-th entry of the delay table, the last entry repeating
TableEntry(n) ==
  WEBHOOK_RETRY_DELAYS[IF n < Len(WEBHOOK_RETRY_DELAYS) THEN n ELSE Len(WEBHOOK_RETRY_DELAYS)]

\* C27: the n-th retry of a delivery is scheduled with the n-th entry of the
\* delay table (the last entry repeating), whether the queue's own retry or
\* retryFailed schedules it.
C27_NthRetryNthDelay ==
  [][\A j \in JobIds :
       (~whDbFailed' /\ jobs[j].state # "delayed" /\ jobs'[j].state = "delayed")
         => jobs'[j].delay = TableEntry(RetryNo')]_vars

\* C21: once a provider has been marked unhealthy it is selected again only
\* when 60 s have passed since that marking, or by the fail-open reset of the
\* primary when no provider is healthy.
C21_NoSelectionInCooldown ==
  [][\A n \in NameSet :
       (inflight'[n] > inflight[n])
         => \/ markedAt[n] = -1
            \/ poolNow >= markedAt[n] + CooldownTicks
            \/ NoneHealthy(providerHealth) /\ n = "primary"]_vars
====
